---------------------------- MODULE Spec2Model ----------------------------
(***************************************************************************)
(* Model of the glossary checker of .github/scripts/check_glossary.py:     *)
(* the range resolver (find_msgstr_line_range), the patch formatter        *)
(* (format_msgstr_for_suggestion), the per-entry classifier and the scan   *)
(* loop of check_po_file, and the file loop of the entry point.            *)
(*                                                                         *)
(* A Python str is a sequence of one-character strings; a file is the      *)
(* sequence of its physical lines (without the line terminator, which      *)
(* str.strip() removes wherever the code looks at a line).                 *)
(***************************************************************************)
EXTENDS Integers, Sequences, FiniteSets, TLC

VARIABLES
    glossary_list,         \* the ordered glossary, as load_glossary returns it
    files,                 \* the file system: path -> physical lines
    existing_comments,     \* set of <<path, line>> already commented on
    po_files,              \* sys.argv[2:]
    pc,                    \* "main" | "scan" | "done" ("idle": no run)
    fidx,                  \* position of the `for po_file in po_files` loop
    lines,                 \* check_po_file: f.readlines()
    po,                    \* check_po_file: polib.pofile(file_path)
    eidx,                  \* position of the `for entry in po` loop
    comments_to_make,      \* check_po_file: the suggestions of this file
    all_comments_to_make,  \* entry point: the suggestions of the run
    exit_code,             \* sys.exit status, -1 while running
    pass,                  \* which run this is (1: the first, 2: after acceptance)
    fmt,                   \* a call of format_msgstr_for_suggestion
    rng                    \* a call of find_msgstr_line_range

vars == << glossary_list, files, existing_comments, po_files, pc, fidx, lines,
           po, eidx, comments_to_make, all_comments_to_make, exit_code, pass,
           fmt, rng >>

engineVars == << glossary_list, files, existing_comments, po_files, pc, fidx,
                 lines, po, eidx, comments_to_make, all_comments_to_make,
                 exit_code, pass >>

-----------------------------------------------------------------------------
(* Characters and the str methods the code uses.                           *)

BSL == "\\"
QUO == "\""
NL  == "\n"
SP  == " "

MSGSTR == << "m", "s", "g", "s", "t", "r" >>
MSGID  == << "m", "s", "g", "i", "d" >>
OBSOLETE_PREFIX == << "#", "~", " " >>

\* str.strip() removes these
IsSpace(c) == c \in { " ", "\n", "\t", "\r" }

\* \w of the re module, on the characters the model uses
IsWord(c) == c \notin { " ", "+", "\\", "\"", "\n", "\t", "\r", "#", "~" }

\* case folding of re.IGNORECASE
Lower(c) ==
    CASE c = "A" -> "a"
      [] c = "B" -> "b"
      [] c = "E" -> "e"
      [] c = "T" -> "t"
      [] c = "X" -> "x"
      [] OTHER   -> c

RECURSIVE LStrip(_)
LStrip(s) ==
    IF s # << >> /\ IsSpace(Head(s)) THEN LStrip(Tail(s)) ELSE s

RECURSIVE RStrip(_)
RStrip(s) ==
    IF s # << >> /\ IsSpace(s[Len(s)]) THEN RStrip(SubSeq(s, 1, Len(s) - 1)) ELSE s

Strip(s) == RStrip(LStrip(s))

StartsWith(s, p) == Len(s) >= Len(p) /\ SubSeq(s, 1, Len(p)) = p

EndsWith(s, p) == Len(s) >= Len(p) /\ SubSeq(s, Len(s) - Len(p) + 1, Len(s)) = p

\* str.replace(old, new), old non-empty: every non-overlapping occurrence,
\* left to right, compared case-sensitively
RECURSIVE Replace(_, _, _)
Replace(s, old, new) ==
    IF Len(s) < Len(old) \/ old = << >> THEN s
    ELSE IF StartsWith(s, old)
         THEN new \o Replace(SubSeq(s, Len(old) + 1, Len(s)), old, new)
         ELSE << Head(s) >> \o Replace(Tail(s), old, new)

\* str.split(sep) on a one-character separator
RECURSIVE Split(_, _)
Split(s, sep) ==
    IF \A i \in 1..Len(s) : s[i] # sep THEN << s >>
    ELSE LET i == CHOOSE k \in 1..Len(s) :
                      s[k] = sep /\ \A j \in 1..(k - 1) : s[j] # sep
         IN  << SubSeq(s, 1, i - 1) >> \o Split(SubSeq(s, i + 1, Len(s)), sep)

-----------------------------------------------------------------------------
(* find_msgstr_line_range                                                  *)

\* the first loop: the first line at or after start_linenum whose stripped
\* content starts with msgstr, or -1
RECURSIVE FindMsgstrStart(_, _)
FindMsgstrStart(ls, i) ==
    IF i > Len(ls) THEN -1
    ELSE IF StartsWith(Strip(ls[i]), MSGSTR) THEN i
    ELSE FindMsgstrStart(ls, i + 1)

\* a variant that does not look at the end of the line
IsContinuation_StartOnly(line_content) == StartsWith(line_content, << QUO >>)

\* the test of the second loop
IsContinuation(line_content) ==
    StartsWith(line_content, << QUO >>) /\ EndsWith(line_content, << QUO >>)

\* the second loop: i is the 1-based line looked at, end the range end so far
RECURSIVE ExtendMsgstrEnd(_, _, _)
ExtendMsgstrEnd(ls, i, end) ==
    IF i > Len(ls) THEN end
    ELSE IF IsContinuation(Strip(ls[i])) THEN ExtendMsgstrEnd(ls, i + 1, i)
    ELSE end

find_msgstr_line_range(ls, start_linenum) ==
    LET msgstr_start_line == FindMsgstrStart(ls, start_linenum)
    IN  IF msgstr_start_line = -1 THEN << -1, -1 >>
        ELSE << msgstr_start_line,
                ExtendMsgstrEnd(ls, msgstr_start_line + 1, msgstr_start_line) >>

-----------------------------------------------------------------------------
(* format_msgstr_for_suggestion.  The result is the returned string cut at *)
(* its line breaks, which are exactly the ones '\n'.join puts in: no       *)
(* fragment holds one, the text having been split on them.                 *)

\* a variant that escapes the quotes before the backslashes
EscapeText_QuoteFirst(text) ==
    Replace(Replace(text, << QUO >>, << BSL, QUO >>), << BSL >>, << BSL, BSL >>)

\* text.replace(backslash, two backslashes).replace(quote, backslash quote)
EscapeText(text) ==
    Replace(Replace(text, << BSL >>, << BSL, BSL >>), << QUO >>, << BSL, QUO >>)

format_msgstr_for_suggestion(text, leading_whitespace) ==
    LET segs == Split(EscapeText(text), NL)
    IN  IF Len(segs) = 1
        THEN << leading_whitespace \o MSGSTR \o << SP, QUO >> \o segs[1] \o << QUO >> >>
        ELSE LET formatted_lines ==
                     << leading_whitespace \o MSGSTR \o << SP, QUO, QUO >> >>
                     \o [ i \in 1..Len(segs) |->
                            leading_whitespace \o << QUO >> \o segs[i]
                                \o << BSL, "n", QUO >> ]
                 n    == Len(formatted_lines)
                 last == formatted_lines[n]
             IN  [ formatted_lines EXCEPT
                     ![n] = SubSeq(last, 1, Len(last) - 3) \o << QUO >> ]

-----------------------------------------------------------------------------
(* The catalog's literal encoding, as the parser reads it back.            *)

RECURSIVE Unescape(_)
Unescape(s) ==
    IF s = << >> THEN << >>
    ELSE IF Head(s) = BSL /\ Len(s) >= 2 /\ s[2] \in { BSL, QUO, "n", "t", "r" }
         THEN << CASE s[2] = "n" -> NL
                   [] s[2] = "t" -> "\t"
                   [] s[2] = "r" -> "\r"
                   [] OTHER      -> s[2] >>
              \o Unescape(SubSeq(s, 3, Len(s)))
         ELSE << Head(s) >> \o Unescape(Tail(s))

\* the text between the first and the last quote of a stripped line
Quoted(line_content) ==
    LET q == { i \in 1..Len(line_content) : line_content[i] = QUO }
    IN  IF Cardinality(q) < 2 THEN << >>
        ELSE LET a == CHOOSE i \in q : \A j \in q : i <= j
                 b == CHOOSE i \in q : \A j \in q : i >= j
             IN  SubSeq(line_content, a + 1, b - 1)

\* each quoted fragment is unescaped on its own and the results concatenated
RECURSIVE ReadBlock(_)
ReadBlock(ls) ==
    IF ls = << >> THEN << >>
    ELSE Unescape(Quoted(Strip(Head(ls)))) \o ReadBlock(Tail(ls))

\* the parser's view of a file: one entry per msgid keyword, its fields read
\* from the keyword line and the quoted lines that follow it; linenum is the
\* line of the msgid keyword; an entry whose lines carry the #~ prefix is
\* obsolete.  i is the line looked at, acc the entries closed so far, cur the
\* open entry (a sequence of at most one record), field the field being read.
RECURSIVE ParseFrom(_, _, _, _, _)
ParseFrom(ls, i, acc, cur, field) ==
    IF i > Len(ls) THEN acc \o cur
    ELSE
      LET raw      == Strip(ls[i])
          obsolete == StartsWith(raw, OBSOLETE_PREFIX)
          content  == IF obsolete
                      THEN Strip(SubSeq(raw, Len(OBSOLETE_PREFIX) + 1, Len(raw)))
                      ELSE raw
          text     == Unescape(Quoted(content))
      IN  IF StartsWith(content, MSGID)
          THEN ParseFrom(ls, i + 1, acc \o cur,
                         << [ msgid |-> text, msgstr |-> << >>, linenum |-> i,
                              obsolete |-> obsolete ] >>, "msgid")
          ELSE IF StartsWith(content, MSGSTR) /\ cur # << >>
          THEN ParseFrom(ls, i + 1, acc,
                         << [ cur[1] EXCEPT !.msgstr = text ] >>, "msgstr")
          ELSE IF StartsWith(content, << QUO >>) /\ cur # << >>
          THEN ParseFrom(ls, i + 1, acc,
                         << IF field = "msgid"
                            THEN [ cur[1] EXCEPT !.msgid = @ \o text ]
                            ELSE [ cur[1] EXCEPT !.msgstr = @ \o text ] >>, field)
          ELSE ParseFrom(ls, i + 1, acc, cur, field)

ParsePO(ls) == ParseFrom(ls, 1, << >>, << >>, "none")

\* the catalog's way of writing a field: one line, or, for a text with line
\* breaks, an empty first literal and one fragment per line of the text
FieldLines(keyword, text) ==
    LET segs == Split(EscapeText(text), NL)
        n    == Len(segs)
    IN  IF n = 1 THEN << keyword \o << SP, QUO >> \o segs[1] \o << QUO >> >>
        ELSE << keyword \o << SP, QUO, QUO >> >>
             \o [ i \in 1..(IF segs[n] = << >> THEN n - 1 ELSE n) |->
                    << QUO >> \o segs[i]
                        \o (IF i < n THEN << BSL, "n" >> ELSE << >>) \o << QUO >> ]

\* the lines of one entry, e = [msgid, msgstr, obsolete, indent], and a blank
EntryLines(e) ==
    LET prefix == IF e.obsolete THEN OBSOLETE_PREFIX ELSE e.indent
    IN  [ i \in 1..Len(FieldLines(MSGID, e.msgid)) |->
            prefix \o FieldLines(MSGID, e.msgid)[i] ]
        \o [ i \in 1..Len(FieldLines(MSGSTR, e.msgstr)) |->
               prefix \o FieldLines(MSGSTR, e.msgstr)[i] ]
        \o << << >> >>

RECURSIVE WritePO(_)
WritePO(es) ==
    IF es = << >> THEN << >> ELSE EntryLines(Head(es)) \o WritePO(Tail(es))

-----------------------------------------------------------------------------
(* The engine at rest, for the specifications that exercise one function.  *)

EngineIdle ==
    /\ glossary_list = << >>
    /\ files = << >>
    /\ existing_comments = {}
    /\ po_files = << >>
    /\ pc = "idle"
    /\ fidx = 1
    /\ lines = << >>
    /\ po = << >>
    /\ eidx = 1
    /\ comments_to_make = << >>
    /\ all_comments_to_make = << >>
    /\ exit_code = -1
    /\ pass = 1

NoCall == [ st |-> "none" ]

-----------------------------------------------------------------------------
(* SpecFormat: format_msgstr_for_suggestion on every text up to            *)
(* MaxTextLen over an alphabet with the characters the encoding treats     *)
(* specially, and on two indentations.                                     *)

MaxTextLen == 3

TextAlphabet == { BSL, QUO, NL, "n", "a" }

Texts == UNION { [ 1..n -> TextAlphabet ] : n \in 0..MaxTextLen }

Indents == { << >>, << SP, SP >> }

InitFormat ==
    /\ EngineIdle
    /\ rng = NoCall
    /\ \E text \in Texts, ws \in Indents :
           fmt = [ st |-> "call", text |-> text, ws |-> ws, out |-> << >> ]

FormatCall ==
    /\ fmt.st = "call"
    /\ fmt' = [ fmt EXCEPT !.st  = "ret",
                           !.out = format_msgstr_for_suggestion(fmt.text, fmt.ws) ]
    /\ UNCHANGED << engineVars, rng >>

SpecFormat == InitFormat /\ [][FormatCall]_vars

\* the number of line breaks of a text
LineBreaks(text) == Cardinality({ i \in 1..Len(text) : text[i] = NL })

\* C5: the block format_msgstr_for_suggestion returns reads back, under the
\* catalog's literal encoding, as exactly the text it was given; a text with
\* k >= 1 line breaks gives the opening line  msgstr ""  and k + 1
\* continuation fragments, a text with none gives a single line; every line
\* carries the leading whitespace.
PatchRoundTrip ==
    fmt.st = "ret" =>
        LET k == LineBreaks(fmt.text) IN
        /\ ReadBlock(fmt.out) = fmt.text
        /\ \A i \in 1..Len(fmt.out) : StartsWith(fmt.out[i], fmt.ws)
        /\ StartsWith(Strip(fmt.out[1]), MSGSTR \o << SP, QUO >>)
        /\ k = 0 => Len(fmt.out) = 1
        /\ k >= 1 =>
             /\ fmt.out[1] = fmt.ws \o MSGSTR \o << SP, QUO, QUO >>
             /\ Len(fmt.out) = k + 2
             /\ \A i \in 2..Len(fmt.out) : IsContinuation(Strip(fmt.out[i]))

\* a text that begins with a line break, holds a backslash and a quote, is
\* indented, and has been formatted
PatchRoundTripWitness ==
    /\ fmt.st = "ret"
    /\ fmt.ws # << >>
    /\ Len(fmt.text) = MaxTextLen
    /\ fmt.text[1] = NL
    /\ BSL \in { fmt.text[i] : i \in 1..Len(fmt.text) }
    /\ QUO \in { fmt.text[i] : i \in 1..Len(fmt.text) }

-----------------------------------------------------------------------------
(* SpecRange: find_msgstr_line_range on every file of up to MaxLines lines *)
(* drawn from LinePool, from every start line.                             *)

MaxLines == 4

LinePool ==
    { MSGSTR \o << SP, QUO, "a", QUO >>,                 \* msgstr "a"
      << SP, SP >> \o MSGSTR \o << SP, QUO, QUO >>,      \*   msgstr ""
      << QUO, "a", BSL, "n", QUO >>,                     \* "a\n"
      << SP, QUO, "a", QUO, SP >>,                       \*  "a"  (indented)
      << QUO, "a" >>,                                    \* "a    (unclosed)
      << QUO >>,                                         \* "
      << >>,                                             \* blank
      MSGID \o << SP, QUO, "a", QUO >>,                  \* msgid "a"
      OBSOLETE_PREFIX \o MSGSTR \o << SP, QUO, "a", QUO >> }  \* #~ msgstr "a"

InitRange ==
    /\ EngineIdle
    /\ fmt = NoCall
    /\ \E n \in 0..MaxLines :
         \E ls \in [ 1..n -> LinePool ], start \in 1..(MaxLines + 1) :
           rng = [ st |-> "call", lines |-> ls, start |-> start,
                   out |-> << -1, -1 >> ]

RangeCall ==
    /\ rng.st = "call"
    /\ rng' = [ rng EXCEPT !.st  = "ret",
                           !.out = find_msgstr_line_range(rng.lines, rng.start) ]
    /\ UNCHANGED << engineVars, fmt >>

SpecRange == InitRange /\ [][RangeCall]_vars

IsMarkerLine(l) == StartsWith(Strip(l), MSGSTR)

IsFragmentLine(l) == StartsWith(Strip(l), << QUO >>) /\ EndsWith(Strip(l), << QUO >>)

\* C8: find_msgstr_line_range returns (-1, -1) exactly when no line at or
\* after the start line begins, once trimmed, with the msgstr marker;
\* otherwise the start of the range is the first such line, the end is not
\* before the start, every line after the start up to the end both starts and
\* ends with a quote once trimmed, and the line after the end, if any, does not.
LineRangeInvariant ==
    rng.st = "ret" =>
        LET ls      == rng.lines
            s       == rng.out[1]
            e       == rng.out[2]
            markers == { i \in rng.start..Len(ls) : IsMarkerLine(ls[i]) }
        IN  /\ (rng.out = << -1, -1 >>) <=> (markers = {})
            /\ markers # {} =>
                 /\ s \in markers
                 /\ \A i \in markers : s <= i
                 /\ s <= e
                 /\ e <= Len(ls)
                 /\ \A i \in (s + 1)..e : IsFragmentLine(ls[i])
                 /\ e < Len(ls) => ~IsFragmentLine(ls[e + 1])

\* a range of more than one line, found after skipping a line, and followed
\* by a line that is not a fragment
LineRangeWitness ==
    /\ rng.st = "ret"
    /\ rng.out[1] > rng.start
    /\ rng.out[2] > rng.out[1]
    /\ rng.out[2] < Len(rng.lines)

-----------------------------------------------------------------------------
(* The re.search calls of check_po_file.  re.escape makes the pattern a    *)
(* literal, so a search is a scan for a position where the literal stands. *)

\* the literal pat stands in s at position i, compared as re.IGNORECASE does
MatchesAtIgnoreCase(pat, s, i) ==
    /\ i >= 1
    /\ i + Len(pat) - 1 <= Len(s)
    /\ \A k \in 1..Len(pat) : Lower(s[i + k - 1]) = Lower(pat[k])

\* re.search(re.escape(pat), s, re.IGNORECASE) is not None
SearchIgnoreCase(pat, s) ==
    \E i \in 1..(Len(s) + 1) : MatchesAtIgnoreCase(pat, s, i)

\* the character before position p + 1 of s is a word character
WordAt(s, p) == p >= 1 /\ p <= Len(s) /\ IsWord(s[p])

\* \b between s[p] and s[p + 1]: exactly one side is a word character
WordBoundary(s, p) == WordAt(s, p) # WordAt(s, p + 1)

\* re.search(r'\b' + re.escape(source_term) + r'\b', msgid, re.IGNORECASE)
SourceInMsgid(source_term, msgid) ==
    \E i \in 1..(Len(msgid) + 1) :
        /\ MatchesAtIgnoreCase(source_term, msgid, i)
        /\ WordBoundary(msgid, i - 1)
        /\ WordBoundary(msgid, i + Len(source_term) - 1)

\* next((error for error in errors_to_check if re.search(...)), None);
\* << >> stands for None (and for '', which is as falsy)
RECURSIVE FoundError(_, _)
FoundError(errors_to_check, msgstr) ==
    IF errors_to_check = << >> THEN << >>
    ELSE IF SearchIgnoreCase(Head(errors_to_check), msgstr) THEN Head(errors_to_check)
    ELSE FoundError(Tail(errors_to_check), msgstr)

-----------------------------------------------------------------------------
(* check_po_file: the body of `for entry in po`.                           *)

\* glossary_map, the keyed view of the glossary that load_glossary hands to
\* check_po_file beside glossary_list: source -> the term of that source
\* (sources are unique keys)
InGlossaryMap(msgid) ==
    \E k \in 1..Len(glossary_list) : glossary_list[k].source = msgid

GlossaryMap(msgid) ==
    glossary_list[CHOOSE k \in 1..Len(glossary_list) :
                      glossary_list[k].source = msgid]

file_path == po_files[fidx]

LeadingWhitespace(original_line) ==
    SubSeq(original_line, 1, Len(original_line) - Len(LStrip(original_line)))

\* a variant that lets obsolete entries through
SkipEntry_KeepObsolete(entry) == entry.msgid = << >> \/ entry.msgstr = << >>

\* `if not entry.msgid or not entry.msgstr or entry.obsolete: continue`
SkipEntry(entry) ==
    entry.msgid = << >> \/ entry.msgstr = << >> \/ entry.obsolete

\* a variant that looks up the start line of the range
DupAnchor_Start(range) == range[1]

\* the line looked up in existing_comments
DupAnchor(range) == range[2]

\* `if end_line == -1 or (file_path, end_line) in existing_comments: continue`
Suppressed(range) ==
    range[2] = -1 \/ << file_path, DupAnchor(range) >> \in existing_comments

\* a variant that looks for the known errors the way strategy 2 does
ExactReason_IgnoreCase(entry, term_data) ==
    IF \E k \in 1..Len(term_data.common_errors) :
           SearchIgnoreCase(term_data.common_errors[k], entry.msgstr)
    THEN "KnownError" ELSE "PolicyDeviation"

\* reason: a known common error, or not according to the glossary
ExactReason(entry, term_data) ==
    IF \E k \in 1..Len(term_data.common_errors) :
           term_data.common_errors[k] = entry.msgstr
    THEN "KnownError" ELSE "PolicyDeviation"

\* strategy 1, entered with entry.msgid in glossary_map and the translation
\* not the target
Strategy1(entry, idx) ==
    LET term_data           == GlossaryMap(entry.msgid)
        correct_translation == term_data.target
        range               == find_msgstr_line_range(lines, entry.linenum)
    IN  IF Suppressed(range) THEN << >>
        ELSE << [ path       |-> file_path,
                  start_line |-> range[1],
                  end_line   |-> range[2],
                  kind       |-> "exact",
                  term       |-> entry.msgid,
                  wrong      |-> entry.msgstr,
                  reason     |-> ExactReason(entry, term_data),
                  target     |-> correct_translation,
                  block      |-> format_msgstr_for_suggestion(
                                     correct_translation,
                                     LeadingWhitespace(lines[range[1]])),
                  entry      |-> idx ] >>

\* the condition under which strategy 2 takes a term for a violation
SentenceViolation(entry, term) ==
    /\ SourceInMsgid(term.source, entry.msgid)
    /\ FoundError(term.common_errors, entry.msgstr) # << >>
    /\ ~SearchIgnoreCase(term.target, entry.msgstr)

RECURSIVE Strategy2(_, _, _)

\* a variant that goes on to the later terms
AfterSuggestion_NoBreak(entry, idx, k) == Strategy2(entry, idx, k + 1)

\* `break`: no later term is looked at once a suggestion is appended
AfterSuggestion(entry, idx, k) == << >>

\* strategy 2: `for term in glossary_list`, from term k on
Strategy2(entry, idx, k) ==
    IF k > Len(glossary_list) THEN << >>
    ELSE
      LET term        == glossary_list[k]
          found_error == FoundError(term.common_errors, entry.msgstr)
          range       == find_msgstr_line_range(lines, entry.linenum)
      IN  IF ~SentenceViolation(entry, term) THEN Strategy2(entry, idx, k + 1)
          ELSE IF Suppressed(range) THEN Strategy2(entry, idx, k + 1)
          ELSE << [ path       |-> file_path,
                    start_line |-> range[1],
                    end_line   |-> range[2],
                    kind       |-> "sentence",
                    term       |-> term.source,
                    wrong      |-> found_error,
                    reason     |-> "SentenceError",
                    target     |-> term.target,
                    block      |-> format_msgstr_for_suggestion(
                                       Replace(entry.msgstr, found_error, term.target),
                                       LeadingWhitespace(lines[range[1]])),
                    entry      |-> idx ] >>
               \o AfterSuggestion(entry, idx, k)

\* what one pass of the loop body appends to comments_to_make
EntrySuggestions(entry, idx) ==
    IF SkipEntry(entry) THEN << >>
    ELSE IF InGlossaryMap(entry.msgid)
            /\ entry.msgstr # GlossaryMap(entry.msgid).target
    THEN Strategy1(entry, idx)
    ELSE Strategy2(entry, idx, 1)

-----------------------------------------------------------------------------
(* The actions: the file loop of the entry point and the entry loop of     *)
(* check_po_file.                                                          *)

FileUsable(path) == path \in DOMAIN files /\ files[path] # << >>

\* `[SKIP] File not found or is empty`
SkipFile ==
    /\ pc = "main"
    /\ fidx <= Len(po_files)
    /\ ~FileUsable(file_path)
    /\ fidx' = fidx + 1
    /\ UNCHANGED << glossary_list, files, existing_comments, po_files, pc, lines,
                    po, eidx, comments_to_make, all_comments_to_make, exit_code,
                    pass, fmt, rng >>

\* check_po_file up to its loop: read the lines, parse the entries
OpenFile ==
    /\ pc = "main"
    /\ fidx <= Len(po_files)
    /\ FileUsable(file_path)
    /\ lines' = files[file_path]
    /\ po' = ParsePO(files[file_path])
    /\ eidx' = 1
    /\ comments_to_make' = << >>
    /\ pc' = "scan"
    /\ UNCHANGED << glossary_list, files, existing_comments, po_files, fidx,
                    all_comments_to_make, exit_code, pass, fmt, rng >>

\* one pass of `for entry in po`
CheckEntry ==
    /\ pc = "scan"
    /\ eidx <= Len(po)
    /\ comments_to_make' = comments_to_make \o EntrySuggestions(po[eidx], eidx)
    /\ eidx' = eidx + 1
    /\ UNCHANGED << glossary_list, files, existing_comments, po_files, pc, fidx,
                    lines, po, all_comments_to_make, exit_code, pass, fmt, rng >>

\* `return comments_to_make` and `all_comments_to_make.extend(comments)`
ReturnFile ==
    /\ pc = "scan"
    /\ eidx > Len(po)
    /\ all_comments_to_make' = all_comments_to_make \o comments_to_make
    /\ comments_to_make' = << >>
    /\ lines' = << >>
    /\ po' = << >>
    /\ eidx' = 1
    /\ fidx' = fidx + 1
    /\ pc' = "main"
    /\ UNCHANGED << glossary_list, files, existing_comments, po_files, exit_code,
                    pass, fmt, rng >>

\* after the file loop: the suggestions are posted and the status is 1, or
\* there are none and it is 0
Finish ==
    /\ pc = "main"
    /\ fidx > Len(po_files)
    /\ pc' = "done"
    /\ exit_code' = IF all_comments_to_make # << >> THEN 1 ELSE 0
    /\ UNCHANGED << glossary_list, files, existing_comments, po_files, fidx, lines,
                    po, eidx, comments_to_make, all_comments_to_make, pass, fmt,
                    rng >>

-----------------------------------------------------------------------------
(* The inputs: glossaries of up to MaxTerms terms of TermPool (sources     *)
(* unique), catalog files of up to MaxEntries entries of EntryPool.        *)

MaxTerms == 2

MaxEntries == 2

Term(source, target, common_errors) ==
    [ source |-> source, target |-> target, common_errors |-> common_errors ]

TermPool ==
    { Term(<< "a", " ", "b" >>, << "x" >>, << << "e" >> >>),
      Term(<< "a" >>,           << "t" >>, << << "x" >>, << "E" >> >>),
      Term(<< "+", "a" >>,      << "y" >>, << << "e" >> >>) }

Glossaries ==
    { g \in UNION { [ 1..n -> TermPool ] : n \in 0..MaxTerms } :
        \A i, j \in 1..Len(g) : i # j => g[i].source # g[j].source }

Entry(msgid, msgstr, obsolete, indent) ==
    [ msgid |-> msgid, msgstr |-> msgstr, obsolete |-> obsolete, indent |-> indent ]

EntryPool ==
    { Entry(<< "a", " ", "b" >>,      << "e" >>,          FALSE, << >>),
      Entry(<< "a", " ", "b" >>,      << "x" >>,          FALSE, << >>),
      Entry(<< "a" >>,                << "e" >>,          FALSE, << SP, SP >>),
      Entry(<< "b", " ", "a" >>,      << "x", NL, "x" >>, FALSE, << >>),
      Entry(<< "a", "b", " ", "c" >>, << "e" >>,          FALSE, << >>),
      Entry(<< "b", "+", "a" >>,      << "e" >>,          FALSE, << >>),
      Entry(<< "a", " ", "b" >>,      << "e" >>,          TRUE,  << >>),
      Entry(<< >>,                    << "e" >>,          FALSE, << >>),
      Entry(<< "a", " ", "b" >>,      << >>,              FALSE, << >>) }

Catalogs == UNION { [ 1..n -> EntryPool ] : n \in 0..MaxEntries }

\* a.po and b.po hold the catalog; c.po does not exist
FileSystems == { [ p \in { "a.po", "b.po" } |-> WritePO(c) ] : c \in Catalogs }

DuplicateSets ==
    { {},
      { << "a.po", 2 >>, << "a.po", 5 >>, << "b.po", 7 >> },
      { << "b.po", 2 >>, << "a.po", 7 >> } }

InitEngine(fileLists, duplicateSets) ==
    /\ glossary_list \in Glossaries
    /\ files \in FileSystems
    /\ existing_comments \in duplicateSets
    /\ po_files \in fileLists
    /\ pc = "main"
    /\ fidx = 1
    /\ lines = << >>
    /\ po = << >>
    /\ eidx = 1
    /\ comments_to_make = << >>
    /\ all_comments_to_make = << >>
    /\ exit_code = -1
    /\ pass = 1
    /\ fmt = NoCall
    /\ rng = NoCall

-----------------------------------------------------------------------------
(* Spec: a run on one catalog file (skipped when it is empty), under each   *)
(* duplicate set.                                                          *)

Init == InitEngine({ << "a.po" >> }, DuplicateSets)

Next == SkipFile \/ OpenFile \/ CheckEntry \/ ReturnFile \/ Finish

Spec == Init /\ [][Next]_vars

-----------------------------------------------------------------------------
(* SpecFiles: the file loop of the entry point, over lists of paths that   *)
(* name two files, one file twice, or a file that does not exist.          *)

FileLists ==
    { << "a.po", "b.po" >>, << "a.po", "a.po" >>, << "c.po", "a.po" >> }

InitFiles == InitEngine(FileLists, { {} })

NextFiles == SkipFile \/ OpenFile \/ CheckEntry \/ ReturnFile \/ Finish

SpecFiles == InitFiles /\ [][NextFiles]_vars

-----------------------------------------------------------------------------
(* SpecAccept: a run, the acceptance of every suggestion it made, and a    *)
(* second run on the patched file with the same duplicate set.             *)

\* lines start_line..end_line replaced by the replacement block
ApplyPatch(ls, s) ==
    SubSeq(ls, 1, s.start_line - 1) \o s.block \o SubSeq(ls, s.end_line + 1, Len(ls))

\* the suggestions S (positions of all_comments_to_make) applied to a file,
\* the lowest one last, so that the line numbers of the others stay valid
RECURSIVE ApplyPatches(_, _)
ApplyPatches(ls, S) ==
    IF S = {} THEN ls
    ELSE LET i == CHOOSE i \in S :
                      \A j \in S : all_comments_to_make[i].start_line
                                     >= all_comments_to_make[j].start_line
         IN  ApplyPatches(ApplyPatch(ls, all_comments_to_make[i]), S \ { i })

AcceptAll ==
    /\ pc = "done"
    /\ pass = 1
    /\ files' = [ p \in DOMAIN files |->
                    ApplyPatches(files[p],
                                 { i \in DOMAIN all_comments_to_make :
                                     all_comments_to_make[i].path = p }) ]
    /\ pass' = 2
    /\ pc' = "main"
    /\ fidx' = 1
    /\ all_comments_to_make' = << >>
    /\ exit_code' = -1
    /\ UNCHANGED << glossary_list, existing_comments, po_files, lines, po, eidx,
                    comments_to_make, fmt, rng >>

InitAccept == InitEngine({ << "a.po" >> }, DuplicateSets)

NextAccept == SkipFile \/ OpenFile \/ CheckEntry \/ ReturnFile \/ Finish \/ AcceptAll

SpecAccept == InitAccept /\ [][NextAccept]_vars

-----------------------------------------------------------------------------
(* The properties of check_po_file, stated over the entries the loop has   *)
(* been through and the suggestions it has made for them.                  *)

\* the entries of the open file the loop is done with
Processed == IF pc = "scan" THEN 1..(eidx - 1) ELSE {}

\* the suggestions made for entry e of the open file
SuggestionsFor(e) ==
    { i \in DOMAIN comments_to_make : comments_to_make[i].entry = e }

\* the msgstr range of entry e of the open file
EntryRange(e) == find_msgstr_line_range(lines, po[e].linenum)

Actionable(entry) ==
    ~entry.obsolete /\ entry.msgid # << >> /\ entry.msgstr # << >>

ErrorSet(term) == { term.common_errors[k] : k \in 1..Len(term.common_errors) }

TermsOfGlossary == { glossary_list[k] : k \in 1..Len(glossary_list) }

\* the translation of an entry whose id is the term's source is not its target
ExactMismatch(entry, term) ==
    entry.msgid = term.source /\ entry.msgstr # term.target

\* the term's source is a whole word of the id (as the code's search finds
\* it), the translation holds one of its known errors and not its target
TermViolated(entry, term) ==
    /\ SourceInMsgid(term.source, entry.msgid)
    /\ \E err \in ErrorSet(term) : SearchIgnoreCase(err, entry.msgstr)
    /\ ~SearchIgnoreCase(term.target, entry.msgstr)

Emittable(e) ==
    EntryRange(e)[2] # -1 /\ << file_path, EntryRange(e)[2] >> \notin existing_comments

\* C1: an actionable entry whose id is a glossary term's source and whose
\* translation is not the term's target, with a resolved range that is not
\* in the duplicate set, gets exactly one suggestion; it spans the range, its
\* replacement is the formatted target of the term, and its reason is
\* KnownError exactly when the translation is literally one of the term's
\* known errors, PolicyDeviation otherwise.
ExactMismatchSuggestion ==
    \A e \in Processed : \A term \in TermsOfGlossary :
        (Actionable(po[e]) /\ ExactMismatch(po[e], term) /\ Emittable(e)) =>
            /\ Cardinality(SuggestionsFor(e)) = 1
            /\ \A i \in SuggestionsFor(e) :
                 LET s == comments_to_make[i] IN
                 /\ s.kind = "exact"
                 /\ << s.start_line, s.end_line >> = EntryRange(e)
                 /\ s.target = term.target
                 /\ s.block = format_msgstr_for_suggestion(
                                  term.target,
                                  LeadingWhitespace(lines[EntryRange(e)[1]]))
                 /\ ReadBlock(s.block) = term.target
                 /\ s.reason \in { "KnownError", "PolicyDeviation" }
                 /\ (s.reason = "KnownError") <=> (po[e].msgstr \in ErrorSet(term))

\* one file with a KnownError suggestion and a PolicyDeviation suggestion
\* whose translation is a known error up to case only
ExactMismatchWitness ==
    /\ \E i \in DOMAIN comments_to_make :
         /\ comments_to_make[i].kind = "exact"
         /\ comments_to_make[i].reason = "KnownError"
    /\ \E i \in DOMAIN comments_to_make :
         /\ comments_to_make[i].kind = "exact"
         /\ comments_to_make[i].reason = "PolicyDeviation"
         /\ \E term \in TermsOfGlossary :
              /\ term.source = comments_to_make[i].term
              /\ \E err \in ErrorSet(term) :
                   SearchIgnoreCase(err, comments_to_make[i].wrong)

\* C2: an entry whose id is some glossary term's source and whose
\* translation is that term's target gets no suggestion.
NoFalsePositiveOnExactMatch ==
    \A e \in Processed : \A term \in TermsOfGlossary :
        (Actionable(po[e]) /\ po[e].msgid = term.source
                           /\ po[e].msgstr = term.target) =>
            SuggestionsFor(e) = {}

\* s with the first occurrence of old, found ignoring case, replaced by new
ReplaceFirstIgnoreCase(s, old, new) ==
    LET at == { i \in 1..Len(s) : MatchesAtIgnoreCase(old, s, i) }
    IN  IF at = {} THEN s
        ELSE LET i == CHOOSE i \in at : \A j \in at : i <= j
             IN  SubSeq(s, 1, i - 1) \o new \o SubSeq(s, i + Len(old), Len(s))

\* C3: the replacement of a SentenceError suggestion is the entry's
\* translation with only the first occurrence of the matched known error, as
\* the case-insensitive search finds it, replaced by the term's target.
SentenceCorrectionFirstOnly ==
    \A i \in DOMAIN comments_to_make :
        LET s == comments_to_make[i] IN
        s.kind = "sentence" =>
            ReadBlock(s.block) =
                ReplaceFirstIgnoreCase(po[s.entry].msgstr, s.wrong, s.target)

\* an entry in violation: strategy 1 finds a mismatch, or strategy 2 a term
Violating(entry) ==
    /\ Actionable(entry)
    /\ \/ \E term \in TermsOfGlossary : ExactMismatch(entry, term)
       \/ \E term \in TermsOfGlossary : TermViolated(entry, term)

\* C6: an entry in violation gets a suggestion if and only if its range
\* resolves and the pair of the file's path and the range's end line is not
\* in the duplicate set.
DuplicateSuppression ==
    \A e \in Processed :
        Violating(po[e]) => ((SuggestionsFor(e) # {}) <=> Emittable(e))

\* one entry in violation is suppressed by its end line, and another is not,
\* though the set holds its range's start line under the same path and its
\* end line under another path
DuplicateSuppressionWitness ==
    /\ \E e \in Processed :
         Violating(po[e]) /\ ~Emittable(e) /\ SuggestionsFor(e) = {}
    /\ \E e \in Processed :
         /\ Violating(po[e])
         /\ SuggestionsFor(e) # {}
         /\ EntryRange(e)[1] < EntryRange(e)[2]
         /\ << file_path, EntryRange(e)[1] >> \in existing_comments
         /\ \E p \in DOMAIN files :
              p # file_path /\ << p, EntryRange(e)[2] >> \in existing_comments

\* C7: a SentenceError suggestion is made for a term only if the term's
\* source stands in the entry's id, compared ignoring case, with no word
\* character immediately before it and none immediately after it.
WordBoundaryGuarantee ==
    \A i \in DOMAIN comments_to_make :
        LET s     == comments_to_make[i]
            msgid == po[s.entry].msgid
        IN  s.kind = "sentence" =>
                \E at \in 1..Len(msgid) :
                    /\ MatchesAtIgnoreCase(s.term, msgid, at)
                    /\ ~WordAt(msgid, at - 1)
                    /\ ~WordAt(msgid, at + Len(s.term))

-----------------------------------------------------------------------------
(* The properties of a whole run.                                          *)

\* the suggestions of the run so far, those of the open file included
Assembled == all_comments_to_make \o comments_to_make

Anchor(s) == << s.path, s.end_line >>

DistinctPaths ==
    \A i, j \in 1..Len(po_files) : i # j => po_files[i] # po_files[j]

\* C10 as stated: whatever the list of files, no two suggestions of a run
\* have the same path and end line.
UniqueAnchors ==
    \A i, j \in DOMAIN Assembled :
        i # j => Anchor(Assembled[i]) # Anchor(Assembled[j])

\* C10, amended: when no path is given more than once, no two suggestions of
\* a run have the same path and end line.
UniqueAnchorsOfDistinctPaths == DistinctPaths => UniqueAnchors

\* a finished run over two different files that made two suggestions in each
UniqueAnchorsWitness ==
    /\ pc = "done"
    /\ Len(po_files) = 2
    /\ DistinctPaths
    /\ \A p \in { po_files[i] : i \in 1..Len(po_files) } :
         Cardinality({ i \in DOMAIN all_comments_to_make :
                         all_comments_to_make[i].path = p }) = 2

\* C4: once every suggestion of a run has been applied, a second run with
\* the same duplicate set makes no suggestion.
SecondRunClean ==
    (pass = 2 /\ pc = "done") => all_comments_to_make = << >>

=============================================================================
